---- MODULE Spec2Model ----
(***************************************************************************)
(* ArgosOS document catalog: IngestAgent.ingest_file, DocumentCRUD /       *)
(* TagCRUD and RetrievalAgent.search_documents as a state machine over the *)
(* row store (documents, tags), the blob directory and the requests in     *)
(* flight.  Every db.commit() of the source ends one step of a request, so *)
(* the states between two steps are the states another request can read.   *)
(***************************************************************************)
EXTENDS Integers, Sequences, FiniteSets, TLC

\* ---------------------------------------------------------------- bounds
MaxDocs == 2

\* Python's None, for a string, a document id, a row, a path or digest, a file name
None == "None"
NoDoc == 0
NoRow == [id |-> NoDoc]
NoTag == [tag |-> None]
NoPath == <<>>
NoName == [stem |-> "", suffix |-> ""]

\* the requests that may be in flight at the same time
Procs == {"r1", "r2"}

\* distinct byte strings that can be uploaded (file_data)
Contents == {"bytes1", "bytes2"}

\* uploaded file names, as (Path(filename).stem, Path(filename).suffix)
Filenames == {[stem |-> "cv", suffix |-> ".pdf"], [stem |-> "notes", suffix |-> ".txt"]}

\* a string the language model can return that was never a tag
Malicious == "x'; DROP TABLE documents;--"

\* tag lists llm_provider.generate_tags can return
TagOutputs == {<<>>, <<"resume">>, <<"career">>, <<"resume", "career">>}

\* limit values passed to search
Limits == {0, 1, 10}

\* the ones drawn while requests overlap
ConcurrentTagOutputs == {<<>>, <<"resume">>, <<"resume", "career">>}

\* ids uuid.uuid4() hands out, in the order they are drawn
DocIds == 1..MaxDocs

Range(s) == {s[i] : i \in 1..Len(s)}

\* ------------------------------------------------------- pure functions
\* hashlib.sha256(data).hexdigest(): one digest per byte string
compute_bytes_hash(data) == <<"sha256", data>>

\* Path(filename).suffix or '.bin'
FileExtension(filename) == IF filename.suffix = "" THEN ".bin" ELSE filename.suffix

\* self.blobs_dir / f"{content_hash}{file_extension}"
BlobPath(content_hash, filename) == <<content_hash, FileExtension(filename)>>

\* title = Path(filename).stem when no title is passed
DefaultTitle(title, filename) == IF title = None THEN filename.stem ELSE title

\* the lookup finds nothing
LookupMisses(docs, content_hash) == NoRow

\* db.query(Document).filter(Document.content_hash == content_hash).first()
get_by_hash(docs, content_hash) ==
    IF \E d \in docs : d.content_hash = content_hash
    THEN CHOOSE d \in docs : d.content_hash = content_hash
    ELSE NoRow

\* db.query(Document).filter(Document.id == document_id).first()
get_by_id(docs, document_id) ==
    IF \E d \in docs : d.id = document_id
    THEN CHOOSE d \in docs : d.id = document_id
    ELSE NoRow

\* a column without the unique constraint
NoUniqueCheck(docs, content_hash) == FALSE

\* Column(String, unique=True) on content_hash: the INSERT is refused
UniqueViolation(docs, content_hash) == \E d \in docs : d.content_hash = content_hash

\* ---------------------------------------------------------------- state
VARIABLES
    documents,  \* rows of the documents table
    tagTable,   \* rows of the tags table: [tag, document_ids]
    blobs,      \* files present under ./data/blobs
    nextId,     \* number of uuids drawn so far
    pc,         \* where each request stands
    local,      \* the local variables of each request
    result,     \* what the last call of each request slot returned
    raced,      \* history: this ingest passed the hash lookup together with another one
    access      \* the row-store statements the last query step of each request issued

vars == <<documents, tagTable, blobs, nextId, pc, local, result, raced, access>>

Idle == [op |-> None, llm |-> FALSE, content_hash |-> NoPath, filename |-> NoName,
         mime_type |-> "", extracted_text |-> "",
         contents |-> <<>>, direct_answer |-> None,
         relevant_content |-> [kind |-> "none", ids |-> <<>>],
         final_result |-> [kind |-> "none", ids |-> <<>>],
         needs_processing |-> FALSE, document_ids |-> <<>>,
         listed_in |-> {},
         summary |-> None, document |-> NoDoc, tag_names |-> <<>>, i |-> 0,
         storage_path |-> NoPath, errors |-> {}, available_tags |-> <<>>,
         relevant_tags |-> <<>>, query |-> <<>>, limit |-> 0,
         response |-> [raises |-> FALSE, text |-> <<>>]]

\* what each extraction strategy would do with the bytes at hand: "text",
\* "empty", "raises", "unavailable" (library not installed) or "unused"
NoStrategies == [vision |-> "unused", ocr |-> "unused", pymupdf |-> "unused",
                 pdfminer |-> "unused", pdf_ocr |-> "unused", docx |-> "unused",
                 decode |-> "unused"]

NoResult == [op |-> None, document |-> NoDoc, ok |-> FALSE, errors |-> {},
             content_hash |-> NoPath, document_ids |-> <<>>, llm |-> FALSE,
             available_tags |-> <<>>, relevant_tags |-> <<>>, tag_names |-> <<>>,
             response |-> [raises |-> FALSE, text |-> <<>>],
             extraction |-> <<>>,
             contents |-> <<>>, direct_answer |-> None, processed_documents |-> <<>>]

Init ==
    /\ documents = {}
    /\ tagTable = {}
    /\ blobs = {}
    /\ nextId = 0
    /\ pc = [p \in Procs |-> "idle"]
    /\ local = [p \in Procs |-> Idle]
    /\ result = [p \in Procs |-> NoResult]
    /\ raced = [p \in Procs |-> FALSE]
    /\ access = [p \in Procs |-> {}]

\* one statement against the row store: its text, who wrote the text, and the
\* value bound to its parameter
Stmt(name, bound) == [stmt |-> name, author |-> "code", bound |-> bound]

\* the call returns its value to the endpoint
Return(p, res) ==
    /\ pc' = [pc EXCEPT ![p] = "returned"]
    /\ local' = [local EXCEPT ![p] = Idle]
    /\ result' = [result EXCEPT ![p] = res]

\* ingests that hold or will draw a uuid
Reserved == Cardinality({q \in Procs : pc[q] \in {"write_blob", "create_row"}})

\* ------------------------------------------------------------- TagCRUD
\* db.query(Tag).filter(Tag.tag == tag).first()
get_by_tag(rows, tag) ==
    IF \E r \in rows : r.tag = tag
    THEN CHOOSE r \in rows : r.tag = tag
    ELSE NoTag

\* TagCRUD.create: one new row, committed
TagCreate(rows, tag, document_ids) == rows \cup {[tag |-> tag, document_ids |-> document_ids]}

\* TagCRUD.get_or_create: a missing tag is created with document_ids=[]
get_or_create(rows, tag) ==
    IF get_by_tag(rows, tag) = NoTag THEN TagCreate(rows, tag, {}) ELSE rows

\* TagCRUD.add_document_to_tag
add_document_to_tag(rows, tag, document_id) ==
    LET db_tag == get_by_tag(rows, tag) IN
    IF db_tag = NoTag
    THEN TagCreate(rows, tag, {document_id})
    ELSE IF document_id \notin db_tag.document_ids
         THEN (rows \ {db_tag}) \cup {[db_tag EXCEPT !.document_ids = @ \cup {document_id}]}
         ELSE rows

\* the tag rows left as they are
KeepDocumentInTag(rows, tag, document_id) == rows

\* TagCRUD.remove_document_from_tag: the tag row goes with its last document
remove_document_from_tag(rows, tag, document_id) ==
    LET db_tag == get_by_tag(rows, tag) IN
    IF db_tag = NoTag
    THEN rows
    ELSE IF document_id \in db_tag.document_ids
         THEN LET doc_ids == db_tag.document_ids \ {document_id} IN
              IF doc_ids # {}
              THEN (rows \ {db_tag}) \cup {[db_tag EXCEPT !.document_ids = doc_ids]}
              ELSE rows \ {db_tag}
         ELSE rows

\* ---------------------------------------------------------- ingest_file
IngestResult(document, errors, content_hash, tag_names) ==
    [NoResult EXCEPT !.op = "ingest", !.document = document, !.ok = (document # NoDoc),
                     !.errors = errors, !.content_hash = content_hash,
                     !.tag_names = tag_names]

\* lines 149-156: the bytes are already in the catalog
ingest_file_duplicate(p, file_data, filename, llm) ==
    /\ pc[p] = "idle"
    /\ LET content_hash == compute_bytes_hash(file_data)
           existing_doc == get_by_hash(documents, content_hash)
       IN /\ existing_doc # NoRow
          /\ Return(p, IngestResult(existing_doc.id, {"already_exists"}, content_hash, <<>>))
    /\ UNCHANGED raced
    /\ UNCHANGED <<documents, tagTable, blobs, nextId, access>>

\* requests that passed the lookup for the same bytes and have not written yet
Racing(p, content_hash) ==
    {q \in Procs \ {p} : pc[q] = "write_blob" /\ local[q].content_hash = content_hash}

\* lines 149-188: new bytes; text extraction and the summary touch no store
ingest_file_new(p, file_data, filename, mime_type, llm, extracted_text, summary_raises) ==
    /\ pc[p] = "idle"
    /\ nextId + Reserved < MaxDocs
    /\ LET content_hash == compute_bytes_hash(file_data)
           e1 == IF extracted_text = "" THEN {"no_text"} ELSE {}
           e2 == IF ~llm THEN {"summary_skipped"}
                 ELSE IF summary_raises THEN {"summary_failed"} ELSE {}
           summary == IF llm /\ ~summary_raises THEN "Summary" ELSE ""
       IN /\ get_by_hash(documents, content_hash) = NoRow
          /\ llm \/ ~summary_raises
          /\ pc' = [pc EXCEPT ![p] = "write_blob"]
          /\ local' = [local EXCEPT ![p] =
                 [Idle EXCEPT !.op = "ingest", !.llm = llm, !.content_hash = content_hash,
                              !.filename = filename, !.mime_type = mime_type,
                              !.extracted_text = extracted_text,
                              !.summary = IF summary # "" THEN summary ELSE None,
                              !.errors = e1 \cup e2]]
          /\ raced' = [q \in Procs |->
                 IF q = p THEN Racing(p, content_hash) # {}
                 ELSE IF q \in Racing(p, content_hash) THEN TRUE ELSE raced[q]]
    /\ UNCHANGED result
    /\ UNCHANGED <<documents, tagTable, blobs, nextId, access>>

\* lines 190-197: blob_path.write_bytes(file_data)
ingest_write_blob(p) ==
    /\ pc[p] = "write_blob"
    /\ blobs' = blobs \cup {BlobPath(local[p].content_hash, local[p].filename)}
    /\ pc' = [pc EXCEPT ![p] = "create_row"]
    /\ local' = [local EXCEPT ![p].storage_path = BlobPath(local[p].content_hash, local[p].filename)]
    /\ UNCHANGED <<documents, tagTable, nextId, result, raced, access>>

\* a failed write that is swallowed: ingest goes on to create the row
BlobFailureIgnored(p) ==
    /\ pc[p] = "write_blob"
    /\ pc' = [pc EXCEPT ![p] = "create_row"]
    /\ local' = [local EXCEPT ![p].storage_path = BlobPath(local[p].content_hash, local[p].filename)]
    /\ UNCHANGED <<documents, tagTable, blobs, nextId, result, raced, access>>

\* lines 196, 248-250: write_bytes raises, the outer handler returns None
ingest_write_blob_fails(p) ==
    /\ pc[p] = "write_blob"
    /\ Return(p, IngestResult(NoDoc, local[p].errors \cup {"unexpected", "fault"}, local[p].content_hash, <<>>))
    /\ UNCHANGED <<documents, tagTable, blobs, nextId, raced, access>>

\* DocumentCRUD.create: tags=[] is stored as the JSON text "[]"
DocumentCreate(id, l) ==
    [id |-> id, content_hash |-> l.content_hash, title |-> DefaultTitle(None, l.filename),
     storage_path |-> l.storage_path, mime_type |-> l.mime_type, summary |-> l.summary,
     tags |-> <<>>]

\* an ingest that gives up when generate_tags raises: no row, no Document returned
TagFailureFatal(p, tag_names, tags_raise) ==
    /\ pc[p] = "create_row"
    /\ ~UniqueViolation(documents, local[p].content_hash)
    /\ local[p].llm \/ (tag_names = <<>> /\ ~tags_raise)
    /\ tags_raise => tag_names = <<>>
    /\ LET id == nextId + 1
           e3 == IF ~local[p].llm THEN {"tags_skipped"} ELSE {}
       IN IF tags_raise
          THEN /\ Return(p, IngestResult(NoDoc, local[p].errors \cup {"tags_failed"},
                                         local[p].content_hash, <<>>))
               /\ UNCHANGED <<documents, nextId>>
          ELSE /\ documents' = documents \cup {DocumentCreate(id, local[p])}
               /\ nextId' = id
               /\ IF tag_names = <<>>
                  THEN Return(p, IngestResult(id, local[p].errors \cup e3,
                                              local[p].content_hash, <<>>))
                  ELSE /\ pc' = [pc EXCEPT ![p] = "tag_rows"]
                       /\ local' = [local EXCEPT ![p].document = id,
                                                 ![p].tag_names = tag_names, ![p].i = 1]
                       /\ UNCHANGED result
    /\ UNCHANGED <<tagTable, blobs, raced, access>>

\* lines 199-246: the row is committed; then the tags are asked for
ingest_create_row(p, tag_names, tags_raise) ==
    /\ pc[p] = "create_row"
    /\ ~UniqueViolation(documents, local[p].content_hash)
    /\ local[p].llm \/ (tag_names = <<>> /\ ~tags_raise)
    /\ tags_raise => tag_names = <<>>
    /\ LET id == nextId + 1
           e3 == IF ~local[p].llm THEN {"tags_skipped"}
                 ELSE IF tags_raise THEN {"tags_failed"} ELSE {}
       IN /\ documents' = documents \cup {DocumentCreate(id, local[p])}
          /\ nextId' = id
          /\ IF tag_names = <<>>
             THEN Return(p, IngestResult(id, local[p].errors \cup e3, local[p].content_hash, <<>>))
             ELSE /\ pc' = [pc EXCEPT ![p] = "tag_rows"]
                  /\ local' = [local EXCEPT ![p].document = id, ![p].tag_names = tag_names,
                                            ![p].i = 1]
                  /\ UNCHANGED result
    /\ UNCHANGED <<tagTable, blobs, raced, access>>

\* lines 213, 248-250: the INSERT hits the unique index, the handler returns None
ingest_create_row_conflict(p) ==
    /\ pc[p] = "create_row"
    /\ UniqueViolation(documents, local[p].content_hash)
    /\ Return(p, IngestResult(NoDoc, local[p].errors \cup {"unexpected"}, local[p].content_hash, <<>>))
    /\ UNCHANGED <<documents, tagTable, blobs, nextId, raced, access>>

\* lines 213, 248-250: the commit raises for another reason
ingest_create_row_fails(p) ==
    /\ pc[p] = "create_row"
    /\ ~UniqueViolation(documents, local[p].content_hash)
    /\ Return(p, IngestResult(NoDoc, local[p].errors \cup {"unexpected", "fault"}, local[p].content_hash, <<>>))
    /\ UNCHANGED <<documents, tagTable, blobs, nextId, raced, access>>

\* lines 231-232: one TagCRUD.get_or_create per generated tag, each committed
ingest_get_or_create_tag(p) ==
    /\ pc[p] = "tag_rows"
    /\ tagTable' = get_or_create(tagTable, local[p].tag_names[local[p].i])
    /\ IF local[p].i = Len(local[p].tag_names)
       THEN pc' = [pc EXCEPT ![p] = "assign_tags"]
       ELSE pc' = pc
    /\ local' = [local EXCEPT ![p].i = @ + 1]
    /\ UNCHANGED <<documents, blobs, nextId, result, raced, access>>

\* lines 234-237, 246: document.tags = json.dumps(tag_names); db.commit()
ingest_assign_tags(p) ==
    /\ pc[p] = "assign_tags"
    /\ get_by_id(documents, local[p].document) # NoRow
    /\ documents' = {IF d.id = local[p].document THEN [d EXCEPT !.tags = local[p].tag_names] ELSE d
                     : d \in documents}
    /\ Return(p, IngestResult(local[p].document, local[p].errors, local[p].content_hash,
                              local[p].tag_names))
    /\ UNCHANGED <<tagTable, blobs, nextId, raced, access>>

\* lines 236, 240-241, 246: the row was deleted meanwhile, the UPDATE raises
ingest_assign_tags_stale(p) ==
    /\ pc[p] = "assign_tags"
    /\ get_by_id(documents, local[p].document) = NoRow
    /\ Return(p, IngestResult(local[p].document, local[p].errors \cup {"tags_failed"},
                              local[p].content_hash, local[p].tag_names))
    /\ UNCHANGED <<documents, tagTable, blobs, nextId, raced, access>>

\* ------------------------------------------------------- _extract_text
\* IngestAgent.SUPPORTED_TYPES
SUPPORTED_TYPES ==
    [m \in {"image/png", "application/pdf",
            "application/vnd.openxmlformats-officedocument.wordprocessingml.document",
            "text/plain"} |->
        CASE m = "image/png" -> "ocr"
          [] m = "application/pdf" -> "pdf"
          [] m = "text/plain" -> "text"
          [] OTHER -> "docx"]

\* IngestAgent.is_supported
is_supported(mime_type) == mime_type \in DOMAIN SUPPORTED_TYPES

\* mime_type.startswith('image/')
IsImage(mime_type) == mime_type = "image/png"

\* the value a strategy hands back: text or None, and whether it raised
Extracted(outcome, name) ==
    [text |-> IF outcome = "text" THEN "text" ELSE None,
     invoked |-> <<name>>, raised |-> outcome = "raises"]

NotInvoked == [text |-> None, invoked |-> <<>>, raised |-> FALSE]

\* except Exception: ... return None
Caught(r) == [r EXCEPT !.text = IF r.raised THEN None ELSE @, !.raised = FALSE]

\* the second strategy runs when the first returned nothing
OrElse(first, second) ==
    IF first.raised \/ first.text # None THEN first
    ELSE [second EXCEPT !.invoked = first.invoked \o @]

\* the exception of the vision call leaves _extract_with_vision_api
VisionUncaught(llm, o) ==
    IF ~llm THEN NotInvoked ELSE Extracted(o.vision, "vision")

\* IngestAgent._extract_with_vision_api
extract_with_vision_api(llm, o) ==
    IF ~llm THEN NotInvoked ELSE Caught(Extracted(o.vision, "vision"))

\* IngestAgent._extract_with_ocr
extract_with_ocr(o) ==
    IF o.ocr = "unavailable" THEN NotInvoked ELSE Caught(Extracted(o.ocr, "ocr"))

\* IngestAgent._extract_from_pdf: PyMuPDF, then pdfminer, nothing else
extract_from_pdf(o) ==
    LET first == IF o.pymupdf = "unavailable" THEN NotInvoked
                 ELSE Caught(Extracted(o.pymupdf, "pymupdf"))
        second == IF o.pdfminer = "unavailable" THEN NotInvoked
                  ELSE Caught(Extracted(o.pdfminer, "pdfminer"))
    IN OrElse(first, second)

\* IngestAgent._extract_from_docx
extract_from_docx(o) ==
    IF o.docx = "unavailable" THEN NotInvoked ELSE Caught(Extracted(o.docx, "docx"))

\* IngestAgent._extract_from_text
extract_from_text(o) == Caught(Extracted(o.decode, "decode"))

\* IngestAgent._extract_text
extract_text(mime_type, llm, o) ==
    IF ~is_supported(mime_type) THEN NotInvoked
    ELSE LET extraction_method == SUPPORTED_TYPES[mime_type] IN
         Caught(CASE extraction_method = "ocr" ->
                        IF IsImage(mime_type)
                        THEN OrElse(extract_with_vision_api(llm, o), extract_with_ocr(o))
                        ELSE extract_with_ocr(o)
                  [] extraction_method = "pdf" -> extract_from_pdf(o)
                  [] extraction_method = "docx" -> extract_from_docx(o)
                  [] OTHER -> extract_from_text(o))

\* app/main.py 472: the content endpoint runs the router on stored bytes
extract_text_call(p, mime_type, llm, o) ==
    /\ pc[p] = "idle"
    /\ LET r == extract_text(mime_type, llm, o) IN
       Return(p, [NoResult EXCEPT !.op = "extract", !.ok = (r.text # None),
                                  !.extraction = [mime_type |-> mime_type, llm |-> llm,
                                                  strategies |-> o, text |-> r.text,
                                                  invoked |-> r.invoked, raised |-> r.raised]])
    /\ UNCHANGED <<documents, tagTable, blobs, nextId, raced, access>>

\* ------------------------------------------------ ingest_file validation
MAX_FILE_SIZE == 104857600

\* len(file_data)
FileSize(file_data) ==
    CASE file_data = "" -> 0
      [] file_data = "exactly_max" -> MAX_FILE_SIZE
      [] file_data = "too_large" -> MAX_FILE_SIZE + 1
      [] OTHER -> 6

\* the limit left out
NoSizeLimit(file_data, filename, mime_type) ==
    IF file_data = "" THEN "empty_data"
    ELSE IF filename = NoName THEN "empty_filename"
    ELSE IF mime_type = "" THEN "empty_mime_type"
    ELSE None

\* ingest_agent.py 127-147: the message of the first failed check, or None
ValidationError(file_data, filename, mime_type) ==
    IF file_data = "" THEN "empty_data"
    ELSE IF filename = NoName THEN "empty_filename"
    ELSE IF mime_type = "" THEN "empty_mime_type"
    ELSE IF FileSize(file_data) > MAX_FILE_SIZE THEN "too_large"
    ELSE None

\* ingest_agent.py 127-147: return None, errors
ingest_file_invalid(p, file_data, filename, mime_type) ==
    /\ pc[p] = "idle"
    /\ ValidationError(file_data, filename, mime_type) # None
    /\ Return(p, IngestResult(NoDoc, {ValidationError(file_data, filename, mime_type)},
                              NoPath, <<>>))
    /\ UNCHANGED <<documents, tagTable, blobs, nextId, raced, access>>

\* an ingest that gives up when extraction yields nothing
IngestRejectsNoText(p, file_data, filename, mime_type, llm, o, summary_raises) ==
    IF ValidationError(file_data, filename, mime_type) # None
    THEN ingest_file_invalid(p, file_data, filename, mime_type)
    ELSE \/ ingest_file_duplicate(p, file_data, filename, llm)
         \/ /\ extract_text(mime_type, llm, o).text # None
            /\ ingest_file_new(p, file_data, filename, mime_type, llm, "text", summary_raises)
         \/ /\ extract_text(mime_type, llm, o).text = None
            /\ pc[p] = "idle"
            /\ get_by_hash(documents, compute_bytes_hash(file_data)) = NoRow
            /\ Return(p, IngestResult(NoDoc, {"no_text"}, NoPath, <<>>))
            /\ UNCHANGED <<documents, tagTable, blobs, nextId, raced, access>>

\* IngestAgent.ingest_file(file_data, filename, mime_type, db), lines 125-188
ingest_file(p, file_data, filename, mime_type, llm, o, summary_raises) ==
    IF ValidationError(file_data, filename, mime_type) # None
    THEN ingest_file_invalid(p, file_data, filename, mime_type)
    ELSE \/ ingest_file_duplicate(p, file_data, filename, llm)
         \/ ingest_file_new(p, file_data, filename, mime_type, llm,
                            IF extract_text(mime_type, llm, o).text = None THEN "" ELSE "text",
                            summary_raises)

\* -------------------------------------------------- DocumentCRUD.delete
DeleteResult(document_id, ok, errors, document_tags) ==
    [NoResult EXCEPT !.op = "delete", !.document = document_id, !.ok = ok, !.errors = errors,
                     !.tag_names = document_tags]

\* lines 94-96: unknown id
delete_not_found(p, document_id) ==
    /\ pc[p] = "idle"
    /\ get_by_id(documents, document_id) = NoRow
    /\ Return(p, DeleteResult(document_id, FALSE, {}, <<>>))
    /\ UNCHANGED raced
    /\ UNCHANGED <<documents, tagTable, blobs, nextId, access>>

\* a delete that goes straight to the file and the row, leaving the tag rows alone
DeleteSkipsCleanup(p, document_id) ==
    /\ pc[p] = "idle"
    /\ LET document == get_by_id(documents, document_id) IN
       /\ document # NoRow
       /\ pc' = [pc EXCEPT ![p] = "unlink"]
       /\ local' = [local EXCEPT ![p] =
              [Idle EXCEPT !.op = "delete", !.document = document_id,
                           !.tag_names = document.tags, !.i = 1,
                           !.storage_path = document.storage_path,
                           !.listed_in = {r.tag : r \in {x \in tagTable :
                                                 document_id \in x.document_ids}}]]
    /\ UNCHANGED result
    /\ UNCHANGED raced
    /\ UNCHANGED <<documents, tagTable, blobs, nextId, access>>

\* lines 94-102: the row is read and its JSON tag list parsed
delete_begin(p, document_id) ==
    /\ pc[p] = "idle"
    /\ LET document == get_by_id(documents, document_id) IN
       /\ document # NoRow
       /\ pc' = [pc EXCEPT ![p] = IF document.tags = <<>> THEN "unlink" ELSE "remove_tags"]
       /\ local' = [local EXCEPT ![p] =
              [Idle EXCEPT !.op = "delete", !.document = document_id,
                           !.tag_names = document.tags, !.i = 1,
                           !.storage_path = document.storage_path,
                           !.listed_in = {r.tag : r \in {x \in tagTable :
                                                 document_id \in x.document_ids}}]]
    /\ UNCHANGED result
    /\ UNCHANGED raced
    /\ UNCHANGED <<documents, tagTable, blobs, nextId, access>>

\* lines 105-106: one TagCRUD.remove_document_from_tag per tag, each committed
delete_remove_tag(p) ==
    /\ pc[p] = "remove_tags"
    /\ tagTable' = remove_document_from_tag(tagTable, local[p].tag_names[local[p].i],
                                            local[p].document)
    /\ IF local[p].i = Len(local[p].tag_names)
       THEN pc' = [pc EXCEPT ![p] = "unlink"]
       ELSE pc' = pc
    /\ local' = [local EXCEPT ![p].i = @ + 1]
    /\ UNCHANGED <<documents, blobs, nextId, result, raced, access>>

\* lines 111-117: the blob is unlinked when it exists
delete_unlink(p) ==
    /\ pc[p] = "unlink"
    /\ blobs' = blobs \ {local[p].storage_path}
    /\ pc' = [pc EXCEPT ![p] = "delete_row"]
    /\ UNCHANGED <<documents, tagTable, nextId, local, result, raced, access>>

\* lines 116, 126-129: unlink raises
delete_unlink_fails(p) ==
    /\ pc[p] = "unlink"
    /\ local[p].storage_path \in blobs
    /\ Return(p, DeleteResult(local[p].document, FALSE, {"fault"}, local[p].tag_names))
    /\ UNCHANGED <<documents, tagTable, blobs, nextId, raced, access>>

\* lines 119-124: db.delete(document); db.commit()
delete_row(p) ==
    /\ pc[p] = "delete_row"
    /\ documents' = {d \in documents : d.id # local[p].document}
    /\ Return(p, DeleteResult(local[p].document, TRUE, {}, local[p].tag_names))
    /\ UNCHANGED <<tagTable, blobs, nextId, raced, access>>

\* lines 120-121, 126-129: the commit raises and is rolled back
delete_row_fails(p) ==
    /\ pc[p] = "delete_row"
    /\ Return(p, DeleteResult(local[p].document, FALSE, {"fault"}, local[p].tag_names))
    /\ UNCHANGED <<documents, tagTable, blobs, nextId, raced, access>>

\* ------------------------------------------------- model response texts
\* a response is a sequence of tokens: brackets, delimiters, a double-quoted
\* string "w" (str) or an unquoted run of characters w (bare)
Tok(k, w) == [k |-> k, w |-> w]
LB == Tok("[", "")
RB == Tok("]", "")
COMMA == Tok(",", "")
Str(w) == Tok("str", w)
Bare(w) == Tok("bare", w)

\* json.loads(text) succeeds and isinstance(.., list): [ "a", "b", ... ]
IsJsonList(text) ==
    /\ Len(text) >= 2
    /\ text[1] = LB
    /\ text[Len(text)] = RB
    /\ Len(text) = 2 \/ (Len(text) - 2) % 2 = 1
    /\ \A j \in 2..(Len(text) - 1) : IF j % 2 = 0 THEN text[j].k = "str" ELSE text[j] = COMMA

\* the elements of the parsed list
JsonListItems(text) == [j \in 1..((Len(text) - 1) \div 2) |-> text[2 * j].w]

\* text.split(delimiter)
RECURSIVE SplitOn(_, _)
SplitOn(text, delims) ==
    IF \E j \in 1..Len(text) : text[j] \in delims
    THEN LET j == CHOOSE k \in 1..Len(text) :
                      text[k] \in delims /\ \A m \in 1..(k - 1) : text[m] \notin delims
         IN <<SubSeq(text, 1, j - 1)>> \o SplitOn(SubSeq(text, j + 1, Len(text)), delims)
    ELSE <<text>>

\* piece.strip().strip('"\'')
StripQuotes(piece) ==
    IF Len(piece) = 0 THEN ""
    ELSE IF Len(piece) = 1
         THEN IF piece[1].k \in {"str", "bare"} THEN piece[1].w ELSE piece[1].k
         ELSE "<junk>"

\* [x for x in seq if x in allowed]
Filter(seq, allowed) ==
    LET Keep(x) == x \in allowed IN SelectSeq(seq, Keep)

\* the filter left out: whatever the model names is used
KeepAll(names, available_tags) == names

\* retrieval_agent.py 205 and 214: only tags that exist in the database
ValidTags(names, available_tags) == Filter(names, Range(available_tags))

\* retrieval_agent.py 192-215: the names read from the answer, before the
\* filter: strict JSON list, else split on commas
RelevantNames(text) ==
    IF text = <<>> THEN <<>>
    ELSE IF IsJsonList(text) THEN JsonListItems(text)
    ELSE LET pieces == SplitOn(text, {COMMA}) IN
         [j \in 1..Len(pieces) |-> StripQuotes(pieces[j])]

\* retrieval_agent.py 192-215: strict JSON list, else split on commas
ParseRelevantTags(text, available_tags) == ValidTags(RelevantNames(text), available_tags)

\* ------------------------------------------ OpenAIProvider.generate_tags
SEMI == Tok(";", "")
NL == Tok("nl", "")

\* str.lower() on the one name written with a capital
Lower(w) == IF w = "Resume" THEN "resume" ELSE w

\* [str(tag).lower().strip() for tag in tags if tag][:7]
CleanTags(items) ==
    LET Truthy(w) == w # ""
        kept == SelectSeq(items, Truthy)
    IN [j \in 1..(IF Len(kept) < 7 THEN Len(kept) ELSE 7) |-> Lower(kept[j])]

\* re.search(r'\[.*?\]', content): the first [ and the first ] after it
BracketMatch(text) ==
    IF \E i \in 1..Len(text) : text[i] = LB /\ \E j \in (i + 1)..Len(text) : text[j] = RB
    THEN LET i == CHOOSE a \in 1..Len(text) :
                      /\ text[a] = LB /\ \E j \in (a + 1)..Len(text) : text[j] = RB
                      /\ \A b \in 1..(a - 1) :
                             ~(text[b] = LB /\ \E j \in (b + 1)..Len(text) : text[j] = RB)
             j == CHOOSE c \in (i + 1)..Len(text) :
                      text[c] = RB /\ \A m \in (i + 1)..(c - 1) : text[m] # RB
         IN SubSeq(text, i, j)
    ELSE <<>>

\* tag.strip().lower().strip('"\'[]'): brackets at the ends go as well
RECURSIVE StripBrackets(_)
StripBrackets(piece) ==
    IF piece # <<>> /\ piece[1] \in {LB, RB} THEN StripBrackets(Tail(piece))
    ELSE IF piece # <<>> /\ piece[Len(piece)] \in {LB, RB}
         THEN StripBrackets(SubSeq(piece, 1, Len(piece) - 1))
    ELSE Lower(StripQuotes(piece))

\* openai_provider.py 124-150: strict JSON list, else the first bracketed
\* list, else split on comma, semicolon and newline
GeneratedNames(text) ==
    IF IsJsonList(text) THEN CleanTags(JsonListItems(text))
    ELSE IF IsJsonList(BracketMatch(text)) THEN CleanTags(JsonListItems(BracketMatch(text)))
    ELSE LET NonEmpty(piece) == piece # <<>>
             pieces == SelectSeq(SplitOn(text, {COMMA, SEMI, NL}), NonEmpty)
         IN CleanTags([j \in 1..Len(pieces) |-> StripBrackets(pieces[j])])

\* the words of an extracted text, lowercased
TextWords(text) ==
    CASE text = "hello world" -> <<"hello", "world">>
      [] text = "Quarterly Report" -> <<"quarterly", "report">>
      [] text = "invoice for the manual" -> <<"invoice", "for", "the", "manual">>
      [] text = "" -> <<>>
      [] OTHER -> <<text>>

\* openai_provider.py 152-169: the keyword table of the except branch
keyword_tags(text) ==
    LET In(w) == w \in Range(TextWords(text))
        table == <<[keys |-> {"pdf", "document"}, tag |-> "document"],
                   [keys |-> {"report"}, tag |-> "report"],
                   [keys |-> {"contract", "agreement"}, tag |-> "legal"],
                   [keys |-> {"invoice", "bill"}, tag |-> "financial"],
                   [keys |-> {"manual", "guide"}, tag |-> "manual"]>>
        Hit(row) == \E w \in row.keys : In(w)
        hits == SelectSeq(table, Hit)
    IN [j \in 1..Len(hits) |-> hits[j].tag]

\* OpenAIProvider.generate_tags(text)
generate_tags(text, llm, response) ==
    IF ~llm THEN <<>>
    ELSE IF response.raises THEN keyword_tags(text)
    ELSE GeneratedNames(response.text)

\* --------------------------------------------------- fixed row lookups
\* rows in the order the store returns them
RECURSIVE SeqOfDocs(_)
SeqOfDocs(docs) ==
    IF docs = {} THEN <<>>
    ELSE LET d == CHOOSE x \in docs : \A y \in docs : x.id <= y.id
         IN <<d>> \o SeqOfDocs(docs \ {d})

Take(seq, n) == SubSeq(seq, 1, IF n < Len(seq) THEN n ELSE Len(seq))

\* the order TagCRUD.get_all returns tag rows in
TagOrder == <<"resume", "career", "r{e9}sum{e9}", "tax-2024", "tax_2024">>

\* retrieval_agent.py 105-120: [tag.name for tag in TagCRUD.get_all(db)]
get_available_tags(rows) ==
    LET Present(t) == \E r \in rows : r.tag = t IN SelectSeq(TagOrder, Present)

\* sub in text, for texts and queries written as word sequences
ContainsWords(text, sub) ==
    \E j \in 1..(Len(text) - Len(sub) + 1) : SubSeq(text, j, j + Len(sub) - 1) = sub

\* the words of a title
TitleWords(title) ==
    IF title = "john smith resume" THEN <<"john", "smith", "resume">> ELSE <<title>>

\* the words of a stored summary
SummaryWords(summary) == IF summary = None THEN <<>> ELSE <<"summary">>

\* DocumentCRUD.search filter: query in lower(title), lower(summary) or the
\* JSON text of tags (where only a whole tag can match a word)
DocMatches(d, query) ==
    \/ ContainsWords(TitleWords(d.title), query)
    \/ ContainsWords(SummaryWords(d.summary), query)
    \/ Len(query) = 1 /\ query[1] \in Range(d.tags)

\* DocumentCRUD.search(db, query, skip, limit)
DocumentSearch(docs, query, skip, limit) ==
    LET Match(d) == DocMatches(d, query)
        results == SelectSeq(SeqOfDocs(docs), Match)
    IN SubSeq(results, skip + 1, IF skip + limit < Len(results) THEN skip + limit ELSE Len(results))

\* retrieval_agent.py 257-264: keep the first row of each id
RECURSIVE UniqueDocs(_)
UniqueDocs(rows) ==
    IF rows = <<>> THEN <<>>
    ELSE LET rest == UniqueDocs(SubSeq(rows, 1, Len(rows) - 1))
             last == rows[Len(rows)]
         IN IF \E j \in 1..Len(rest) : rest[j].id = last.id THEN rest ELSE Append(rest, last)

\* the characters of a tag name, shortened; {e9} is the character U+00E9
Spelling(tag) ==
    CASE tag = "resume" -> <<"r", "e", "s">>
      [] tag = "career" -> <<"c", "a", "r">>
      [] tag = "r{e9}sum{e9}" -> <<"r", "{e9}", "s">>
      [] tag = "tax-2024" -> <<"t", "-", "2">>
      [] tag = "tax_2024" -> <<"t", "_", "2">>
      [] OTHER -> <<tag>>

\* characters json.dumps writes as they are (ensure_ascii=True escapes the others)
Ascii == {"r", "e", "s", "c", "a", "t", "-", "_", "2"}

\* json.dumps of one character of a string
JsonChar(c) == IF c \in Ascii THEN <<c>> ELSE <<"\\", "u", "0", "0", "e", "9">>

\* json.dumps of a string: quoted, non-ASCII characters as \uXXXX
RECURSIVE JsonChars(_)
JsonChars(chars) ==
    IF chars = <<>> THEN <<>> ELSE JsonChar(Head(chars)) \o JsonChars(Tail(chars))

Quoted(chars) == <<"\"">> \o chars \o <<"\"">>

\* json.dumps(tag_names): the text stored in Document.tags
RECURSIVE json_dumps(_)
json_dumps(tag_names) ==
    IF tag_names = <<>> THEN <<"[", "]">>
    ELSE LET rest == json_dumps(Tail(tag_names))
             head == Quoted(JsonChars(Spelling(Head(tag_names))))
         IN IF Len(rest) = 2 THEN <<"[">> \o head \o <<"]">>
            ELSE <<"[">> \o head \o <<",", " ">> \o Tail(rest)

\* one character of a LIKE pattern against one character of the column: _ matches any
LikeChar(m, c) == m = "_" \/ m = c

\* column LIKE '%' || pattern || '%'
LikeContains(text, pattern) ==
    \E j \in 1..(Len(text) - Len(pattern) + 1) :
        \A k \in 1..Len(pattern) : LikeChar(pattern[k], text[j + k - 1])

\* Document.tags.contains(f'"{tag}"')
TagsContain(d, tag) == LikeContains(json_dumps(d.tags), Quoted(Spelling(tag)))

\* retrieval_agent.py 249-254: one LIKE '%"tag"%' query per relevant tag
RECURSIVE TagDocs(_, _, _)
TagDocs(docs, relevant_tags, limit) ==
    IF relevant_tags = <<>> THEN <<>>
    ELSE LET Has(d) == TagsContain(d, relevant_tags[1])
         IN Take(SelectSeq(SeqOfDocs(docs), Has), limit)
            \o TagDocs(docs, Tail(relevant_tags), limit)

\* RetrievalAgent._search_documents_with_generated_tags
search_documents_with_generated_tags(docs, relevant_tags, limit) ==
    IF relevant_tags = <<>> THEN <<>>
    ELSE Take(UniqueDocs(TagDocs(docs, relevant_tags, limit)), limit)

\* query words of at most 2 characters
ShortWords == {"my", "cv"}

\* retrieval_agent.py 290-294: DocumentCRUD.search per word longer than 2 characters
RECURSIVE WordDocs(_, _, _)
WordDocs(docs, words, limit) ==
    IF words = <<>> THEN <<>>
    ELSE (IF Head(words) \notin ShortWords
          THEN DocumentSearch(docs, <<Head(words)>>, 0, limit) ELSE <<>>)
         \o WordDocs(docs, Tail(words), limit)

\* RetrievalAgent._search_documents_with_tags: whole query, then word by word
search_documents_with_tags(docs, query, limit) ==
    LET whole == DocumentSearch(docs, query, 0, limit)
    IN IF whole # <<>> THEN whole ELSE Take(UniqueDocs(WordDocs(docs, query, limit)), limit)

\* a statement taken from the model's answer
ModelQueryStatements(relevant_tags) ==
    {[stmt |-> "model_sql", author |-> "model", bound |-> <<relevant_tags[j]>>]
        : j \in 1..Len(relevant_tags)}

\* the statements _search_documents_with_generated_tags sends to the store
TagFetchStatements(relevant_tags) ==
    {Stmt("documents_tags_contains", <<relevant_tags[j]>>) : j \in 1..Len(relevant_tags)}

\* the tags of the rows a text search found, in tag order
TagsOfDocs(rows) ==
    LET Carried(t) == \E j \in 1..Len(rows) : t \in Range(rows[j].tags)
    IN SelectSeq(TagOrder, Carried)

\* retrieval_agent.py 135-168: no model; tags of text matches, else tags that
\* contain the query or occur in it
FallbackTags(docs, query, available_tags, limit) ==
    LET found == TagsOfDocs(DocumentSearch(docs, query, 0, limit))
        Partial(t) == ContainsWords(<<t>>, query) \/ ContainsWords(query, <<t>>)
    IN IF found # <<>> THEN found ELSE SelectSeq(available_tags, Partial)

\* retrieval_agent.py 217-225: the model call raised; tags that occur in the query
TagsInQuery(query, available_tags) ==
    LET Occurs(t) == ContainsWords(query, <<t>>) IN SelectSeq(available_tags, Occurs)

\* RetrievalAgent._generate_relevant_tags
generate_relevant_tags(docs, query, available_tags, limit, llm, response) ==
    IF ~llm THEN FallbackTags(docs, query, available_tags, limit)
    ELSE IF response.raises THEN TagsInQuery(query, available_tags)
    ELSE ParseRelevantTags(response.text, available_tags)

\* retrieval_agent.py 63-64
ClampLimit(limit) == IF limit <= 0 \/ limit > 1000 THEN 10 ELSE limit

Ids(rows) == [j \in 1..Len(rows) |-> rows[j].id]

SearchResult(ids, errors, l) ==
    [NoResult EXCEPT !.op = "search", !.ok = (errors = {}), !.errors = errors,
                     !.document_ids = ids, !.llm = l.llm,
                     !.available_tags = l.available_tags, !.relevant_tags = l.relevant_tags,
                     !.response = l.response]

\* ------------------------------------- RetrievalAgent.search_documents
\* lines 53-61: empty or blank query
search_documents_empty(p) ==
    /\ pc[p] = "idle"
    /\ Return(p, SearchResult(<<>>, {"empty_query"}, Idle))
    /\ access' = [access EXCEPT ![p] = {}]
    /\ UNCHANGED <<documents, tagTable, blobs, nextId, raced>>

\* lines 63-79: the vocabulary is loaded and the relevant tags are chosen
search_documents_begin(p, query, limit, llm, response) ==
    /\ pc[p] = "idle"
    /\ query # <<>>
    /\ llm \/ response = [raises |-> TRUE, text |-> <<>>]
    /\ LET available_tags == get_available_tags(tagTable)
           relevant_tags == generate_relevant_tags(documents, query, available_tags,
                                                   ClampLimit(limit), llm, response)
       IN /\ local' = [local EXCEPT ![p] =
                 [Idle EXCEPT !.op = "search", !.llm = llm, !.query = query,
                              !.limit = ClampLimit(limit),
                              !.available_tags = available_tags,
                              !.relevant_tags = relevant_tags,
                              !.response = response]]
          /\ access' = [access EXCEPT ![p] =
                 {Stmt("tags_all", <<>>)}
                 \cup (IF llm THEN {} ELSE {Stmt("documents_text_contains", query)})]
    /\ pc' = [pc EXCEPT ![p] = "search_fetch"]
    /\ UNCHANGED <<documents, tagTable, blobs, nextId, result, raced>>

\* lines 81-103: fetch by tag, then by text when nothing carries the tags
search_documents_fetch(p) ==
    /\ pc[p] = "search_fetch"
    /\ LET l == local[p]
           by_tags == search_documents_with_generated_tags(documents, l.relevant_tags, l.limit)
           found == IF by_tags # <<>> THEN by_tags
                    ELSE DocumentSearch(documents, l.query, 0, l.limit)
       IN /\ Return(p, SearchResult(Ids(found), {}, l))
          /\ access' = [access EXCEPT ![p] =
                 TagFetchStatements(l.relevant_tags)
                 \cup (IF by_tags # <<>> THEN {}
                       ELSE {Stmt("documents_text_contains", l.query)})]
    /\ UNCHANGED <<documents, tagTable, blobs, nextId, raced>>

\* RetrievalAgent.get_document_content: SELECT ... WHERE id = :document_id
get_document_content(p, document_id) ==
    /\ pc[p] = "idle"
    /\ LET row == get_by_id(documents, document_id) IN
       Return(p, [NoResult EXCEPT !.op = "content", !.document = row.id,
                                  !.ok = (row # NoRow /\ row.storage_path \in blobs)])
    /\ access' = [access EXCEPT ![p] = {Stmt("documents_by_id", <<ToString(document_id)>>)}]
    /\ UNCHANGED <<documents, tagTable, blobs, nextId, raced>>

\* -------------------------------- PostProcessorAgent.process_documents
\* what the four model calls of the pipeline do: the direct answer, the
\* relevant content, the decision ("true", "false", "truthy" for a value that
\* is not a boolean, "junk" for text that is not the JSON asked for) and the
\* further processing
ModelCalls(direct, relevant, decision, processing) ==
    [direct |-> direct, relevant |-> relevant, decision |-> decision,
     processing |-> processing]

\* PostProcessorAgent._extract_text_from_file: every exception is caught
\* inside and gives the empty string, as does a type it has no branch for
extract_text_from_file(read, mime_type) ==
    IF mime_type \in {"text/plain", "application/pdf", "image/png"} /\ read = "text"
    THEN "text" ELSE ""

\* the summary when there is one, else a placeholder with the title
SummaryOrPlaceholder(doc, opened) ==
    IF doc.summary # None /\ doc.summary # ""
    THEN [document_id |-> doc.id, kind |-> "summary", text |-> doc.summary, opened |-> opened]
    ELSE [document_id |-> doc.id, kind |-> "placeholder", text |-> doc.title, opened |-> opened]

\* one pass of the loop of _extract_document_contents, lines 134-167
DocumentContent(doc, bl, read) ==
    IF IsImage(doc.mime_type) THEN SummaryOrPlaceholder(doc, FALSE)
    ELSE IF doc.storage_path \in bl /\ read # "missing"
    THEN IF read = "read_error" THEN SummaryOrPlaceholder(doc, TRUE)
         ELSE [document_id |-> doc.id, kind |-> "extracted",
               text |-> extract_text_from_file(read, doc.mime_type), opened |-> TRUE]
    ELSE SummaryOrPlaceholder(doc, FALSE)

\* PostProcessorAgent._extract_document_contents
extract_document_contents(rows, bl, env) ==
    [j \in 1..Len(rows) |-> DocumentContent(rows[j], bl, env[rows[j].id])]

\* the words of a content entry
ContentWords(c) ==
    CASE c.kind = "summary" -> SummaryWords(c.text)
      [] c.kind = "placeholder" -> <<"document">> \o TitleWords(c.text)
      [] OTHER -> IF c.text = "" THEN <<>> ELSE <<"text">>

\* PostProcessorAgent._generate_direct_answer
generate_direct_answer(llm, m) ==
    IF ~llm THEN "LLM not available for generating direct answer"
    ELSE IF m.direct = "raises" THEN "Error generating answer"
    ELSE "answer"

\* PostProcessorAgent._find_relevant_content
find_relevant_content(query, extracted_contents, llm, m) ==
    IF ~llm
    THEN LET Has(c) == ContainsWords(ContentWords(c), query) IN
         [kind |-> "substring",
          ids |-> [j \in 1..Len(SelectSeq(extracted_contents, Has)) |->
                      SelectSeq(extracted_contents, Has)[j].document_id]]
    ELSE IF m.relevant = "raises"
    THEN [kind |-> "Error processing content with LLM", ids |-> <<>>]
    ELSE [kind |-> "model", ids |-> <<>>]

\* a decision that asks for processing when the call failed
DecideDefaultsTrue(llm, m) == llm /\ m.decision \in {"true", "truthy", "raises"}

\* PostProcessorAgent._decide_additional_processing: needs_processing
decide_additional_processing(llm, m) == llm /\ m.decision \in {"true", "truthy"}

\* PostProcessorAgent._perform_additional_processing
perform_additional_processing(relevant_content, llm, m) ==
    IF ~llm \/ m.processing = "raises" THEN relevant_content
    ELSE [kind |-> "processed", ids |-> <<>>]

\* PostProcessorAgent.process_documents: the dictionary it returns
ProcessResult(docs, bl, query, document_ids, llm, m, env) ==
    LET rows == SeqOfDocs({d \in docs : d.id \in Range(document_ids)})
        extracted_contents == extract_document_contents(rows, bl, env)
        relevant_content == find_relevant_content(query, extracted_contents, llm, m)
        needs_processing == decide_additional_processing(llm, m)
        final_result == IF needs_processing
                        THEN perform_additional_processing(relevant_content, llm, m)
                        ELSE relevant_content
    IN IF query = <<>> THEN [NoResult EXCEPT !.op = "process", !.errors = {"empty_query"}]
       ELSE IF document_ids = <<>> THEN [NoResult EXCEPT !.op = "process", !.errors = {"no_ids"}]
       ELSE IF rows = <<>> THEN [NoResult EXCEPT !.op = "process", !.errors = {"no_documents"}]
       ELSE [NoResult EXCEPT
                !.op = "process", !.ok = TRUE, !.llm = llm, !.document_ids = Ids(rows),
                !.contents = extracted_contents,
                !.direct_answer = generate_direct_answer(llm, m),
                !.processed_documents =
                    [j \in 1..Len(rows) |->
                        [document_id |-> rows[j].id, relevant_content |-> final_result,
                         processing_applied |-> needs_processing]]]

\* POST /api/process: PostProcessorAgent.process_documents(query, document_ids, db)
process_documents(p, query, document_ids, llm, m, env) ==
    /\ pc[p] = "idle"
    /\ Return(p, ProcessResult(documents, blobs, query, document_ids, llm, m, env))
    /\ access' = [access EXCEPT ![p] =
           IF query = <<>> \/ document_ids = <<>> THEN {}
           ELSE {Stmt("documents_by_id_in",
                      [j \in 1..Len(document_ids) |-> ToString(document_ids[j])])}]
    /\ UNCHANGED <<documents, tagTable, blobs, nextId, raced>>

\* app/main.py 313-321: the search endpoint hands the ids it found to
\* process_documents and adds what it returns to its answer
search_documents_process(p, query, m, env) ==
    /\ pc[p] = "returned"
    /\ result[p].op = "search"
    /\ result[p].document_ids # <<>>
    /\ LET r == ProcessResult(documents, blobs, query, result[p].document_ids,
                              result[p].llm, m, env) IN
       result' = [result EXCEPT ![p] =
                     [@ EXCEPT !.op = "answer", !.errors = r.errors,
                               !.contents = r.contents,
                               !.direct_answer = r.direct_answer,
                               !.processed_documents = r.processed_documents]]
    /\ access' = [access EXCEPT ![p] = @ \cup
           {Stmt("documents_by_id_in",
                 [j \in 1..Len(result[p].document_ids) |-> ToString(result[p].document_ids[j])])}]
    /\ UNCHANGED <<documents, tagTable, blobs, nextId, pc, local, raced>>

\* ---------------------------------------------------------------- answer pipeline, stage by stage
\* lines 51-85 (steps 1-2): the rows are fetched and their contents extracted;
\* the call goes on only with a query, ids and at least one row found
process_documents_gather(p, query, document_ids, llm, env) ==
    /\ pc[p] = "idle"
    /\ query # <<>>
    /\ document_ids # <<>>
    /\ LET rows == SeqOfDocs({d \in documents : d.id \in Range(document_ids)}) IN
       /\ rows # <<>>
       /\ local' = [local EXCEPT ![p] =
              [Idle EXCEPT !.op = "process", !.llm = llm, !.query = query,
                           !.document_ids = Ids(rows),
                           !.contents = extract_document_contents(rows, blobs, env)]]
    /\ pc' = [pc EXCEPT ![p] = "content_gathered"]
    /\ access' = [access EXCEPT ![p] =
           {Stmt("documents_by_id_in",
                 [j \in 1..Len(document_ids) |-> ToString(document_ids[j])])}]
    /\ UNCHANGED <<documents, tagTable, blobs, nextId, result, raced>>

\* lines 87-94 (steps 3-5): the direct answer, the relevant content and the
\* decision, each from a call that catches what the model raises
process_documents_answer(p, m) ==
    /\ pc[p] = "content_gathered"
    /\ local' = [local EXCEPT ![p] =
           [@ EXCEPT !.direct_answer = generate_direct_answer(local[p].llm, m),
                     !.relevant_content = find_relevant_content(local[p].query, local[p].contents,
                                                                local[p].llm, m),
                     !.final_result = find_relevant_content(local[p].query, local[p].contents,
                                                            local[p].llm, m),
                     !.needs_processing = decide_additional_processing(local[p].llm, m)]]
    /\ pc' = [pc EXCEPT ![p] = "answered"]
    /\ UNCHANGED <<documents, tagTable, blobs, nextId, result, raced, access>>

\* a follow-up call that asks for another decision
AdditionalProcessingLoops(p, m) ==
    /\ pc[p] = "answered"
    /\ local[p].needs_processing
    /\ local' = [local EXCEPT ![p].final_result =
           perform_additional_processing(local[p].relevant_content, local[p].llm, m)]
    /\ pc' = [pc EXCEPT ![p] = "content_gathered"]
    /\ UNCHANGED <<documents, tagTable, blobs, nextId, result, raced, access>>

\* lines 96-102 (step 6): one follow-up call when the decision asked for it
process_documents_additional(p, m) ==
    /\ pc[p] = "answered"
    /\ local[p].needs_processing
    /\ local' = [local EXCEPT ![p].final_result =
           perform_additional_processing(local[p].relevant_content, local[p].llm, m)]
    /\ pc' = [pc EXCEPT ![p] = "maybe_reprocessed"]
    /\ UNCHANGED <<documents, tagTable, blobs, nextId, result, raced, access>>

\* lines 104-119: the dictionary is filled in and returned
process_documents_format(p) ==
    /\ \/ pc[p] = "maybe_reprocessed"
       \/ pc[p] = "answered" /\ ~local[p].needs_processing
    /\ Return(p, [NoResult EXCEPT
                     !.op = "process", !.ok = TRUE, !.llm = local[p].llm,
                     !.document_ids = local[p].document_ids,
                     !.contents = local[p].contents,
                     !.direct_answer = local[p].direct_answer,
                     !.processed_documents =
                         [j \in 1..Len(local[p].document_ids) |->
                             [document_id |-> local[p].document_ids[j],
                              relevant_content |-> local[p].final_result,
                              processing_applied |-> local[p].needs_processing]]])
    /\ UNCHANGED <<documents, tagTable, blobs, nextId, raced, access>>

\* app/main.py: the endpoint builds the response from what the call returned
respond(p) ==
    /\ pc[p] = "returned"
    /\ pc' = [pc EXCEPT ![p] = "idle"]
    /\ result' = [result EXCEPT ![p] = NoResult]
    /\ raced' = [raced EXCEPT ![p] = FALSE]
    /\ access' = [access EXCEPT ![p] = {}]
    /\ UNCHANGED <<documents, tagTable, blobs, nextId, local>>

\* ------------------------------------------------------- specifications
AllIdle == \A q \in Procs : pc[q] = "idle"

\* POST /api/files/upload, with the model configured or not (Llm), text found
\* or not (Texts), and summarize raising or not (Raises)
IngestBegin(p, Llm, Texts, Raises) ==
    \E file_data \in Contents, filename \in Filenames, llm \in Llm :
        \/ ingest_file_duplicate(p, file_data, filename, llm)
        \/ \E extracted_text \in Texts, summary_raises \in Raises :
               ingest_file_new(p, file_data, filename, "application/pdf", llm, extracted_text,
                               summary_raises)

\* DELETE /api/documents/{document_id}
DeleteBegin(p) ==
    \E document_id \in DocIds : delete_not_found(p, document_id) \/ delete_begin(p, document_id)

\* the tag operation of TagCRUD that appends an id, for a document and one of its tags
TagOperation ==
    \E d \in documents : \E tag \in Range(d.tags) :
        /\ tagTable' = add_document_to_tag(tagTable, tag, d.id)
        /\ tagTable' # tagTable
        /\ UNCHANGED <<documents, blobs, nextId, pc, local, result, raced, access>>

\* the steps of an ingest after the lookup; generate_tags returns one of Outputs
IngestContinue(p, Outputs, Raises) ==
    \/ ingest_write_blob(p)
    \/ \E tag_names \in Outputs, tags_raise \in Raises : ingest_create_row(p, tag_names, tags_raise)
    \/ ingest_get_or_create_tag(p)
    \/ ingest_assign_tags(p)

\* the steps of a delete after the row is read
DeleteContinue(p) ==
    \/ delete_remove_tag(p)
    \/ delete_unlink(p)
    \/ delete_row(p)

\* requests interleave at every commit
Next ==
    \E p \in Procs :
        \/ IngestBegin(p, {TRUE}, {"text"}, {FALSE})
        \/ IngestContinue(p, ConcurrentTagOutputs, {FALSE})
        \/ DeleteBegin(p)
        \/ DeleteContinue(p)
        \/ ingest_create_row_conflict(p)
        \/ ingest_assign_tags_stale(p)
        \/ respond(p)

Spec == Init /\ [][Next]_vars

\* the slot of the one request being served
SeqProcs == {"r1"}

\* uploads and deletes, one request at a time, as the event loop of
\* app/main.py serves them
SeqNext ==
    \/ \E p \in SeqProcs :
          \/ AllIdle /\ IngestBegin(p, BOOLEAN, {"", "text"}, BOOLEAN)
          \/ IngestContinue(p, TagOutputs, BOOLEAN)
          \/ AllIdle /\ DeleteBegin(p)
          \/ DeleteContinue(p)
          \/ respond(p)
    \/ AllIdle /\ TagOperation

SpecSeq == Init /\ [][SeqNext]_vars

\* uploads with the model configured, deletes, and the requests that read:
\* search, content and the answer pipeline, one request at a time
QueryNext ==
    \E p \in SeqProcs :
        \/ AllIdle /\ IngestBegin(p, {TRUE}, {"text"}, {FALSE})
        \/ IngestContinue(p, TagOutputs, {FALSE})
        \/ AllIdle /\ DeleteBegin(p)
        \/ DeleteContinue(p)
        \/ AllIdle /\ search_documents_empty(p)
        \/ /\ AllIdle
           /\ \E query \in {<<"resume">>, <<"find", "my", "resume">>, <<"cv">>},
                  limit \in Limits, llm \in BOOLEAN,
                  response \in
                      {[raises |-> TRUE, text |-> <<>>]} \cup
                      {[raises |-> FALSE, text |-> t] : t \in
                          {<<>>,
                           <<LB, RB>>,
                           <<LB, Str("resume"), COMMA, Str("career"), RB>>,
                           <<LB, Str("resume"), COMMA, Str(Malicious), RB>>,
                           <<Str(Malicious)>>,
                           <<Str("career")>>,
                           <<Bare("resume"), COMMA, Bare(Malicious)>>,
                           <<Bare("sure"), LB, Str("career"), RB>>}} :
                  search_documents_begin(p, query, limit, llm, response)
        \/ search_documents_fetch(p)
        \/ AllIdle /\ \E document_id \in DocIds : get_document_content(p, document_id)
        \/ /\ AllIdle
           /\ \E query \in {<<"resume">>, <<"find", "my", "resume">>, <<"cv">>},
                  document_ids \in {<<1>>, <<2, 1>>} :
                  process_documents(p, query, document_ids, TRUE,
                                    ModelCalls("raises", "raises", "raises", "raises"),
                                    [id \in DocIds |-> "text"])
        \/ respond(p)

SpecQuery == Init /\ [][QueryNext]_vars

\* uploads with the model configured, then searches, one request at a time
SearchNext ==
    \E p \in SeqProcs :
        \/ /\ AllIdle
           /\ \E file_data \in Contents,
                  filename \in {[stem |-> "cv", suffix |-> ".pdf"],
                                [stem |-> "john smith resume", suffix |-> ".pdf"]} :
                  \/ ingest_file_duplicate(p, file_data, filename, TRUE)
                  \/ ingest_file_new(p, file_data, filename, "application/pdf", TRUE, "text", FALSE)
        \/ IngestContinue(p, {<<>>, <<"resume">>, <<"resume", "career">>, <<"r{e9}sum{e9}">>,
                              <<"tax-2024">>, <<"tax_2024">>}, {FALSE})
        \/ /\ AllIdle
           /\ \E query \in {<<"find", "my", "resume">>, <<"john", "resume">>, <<"cv">>},
                  limit \in Limits, llm \in BOOLEAN,
                  response \in
                      {[raises |-> TRUE, text |-> <<>>]} \cup
                      {[raises |-> FALSE, text |-> t] : t \in
                          {<<LB, RB>>,
                           <<LB, Str("resume"), COMMA, Str("career"), RB>>,
                           <<LB, Str("career"), COMMA, Str("resume"), RB>>,
                           <<LB, Str("r{e9}sum{e9}"), RB>>,
                           <<LB, Str("tax_2024"), RB>>}} :
                  search_documents_begin(p, query, limit, llm, response)
        \/ search_documents_fetch(p)
        \/ respond(p)

SpecSearch == Init /\ [][SearchNext]_vars

\* what the strategies that can serve a media type may do
Outcomes(mime_type) ==
    CASE mime_type = "image/png" ->
             {[NoStrategies EXCEPT !.vision = v, !.ocr = c] :
                  v \in {"text", "empty", "raises"},
                  c \in {"text", "empty", "raises", "unavailable"}}
      [] mime_type = "application/pdf" ->
             {[NoStrategies EXCEPT !.pymupdf = a, !.pdfminer = b, !.pdf_ocr = c] :
                  a \in {"text", "empty", "raises", "unavailable"},
                  b \in {"text", "empty", "raises", "unavailable"},
                  c \in {"text", "empty"}}
      [] mime_type = "text/plain" ->
             {[NoStrategies EXCEPT !.decode = a] : a \in {"text", "empty", "raises"}}
      [] mime_type = "application/zip" -> {NoStrategies}
      [] mime_type = "" -> {NoStrategies}
      [] OTHER ->
             {[NoStrategies EXCEPT !.docx = a] :
                  a \in {"text", "empty", "raises", "unavailable"}}

\* calls of the extraction router alone
ExtractNext ==
    \E p \in Procs :
        \/ \E mime_type \in
                  {"image/png", "application/pdf",
                   "application/vnd.openxmlformats-officedocument.wordprocessingml.document",
                   "text/plain", "application/zip"},
              llm \in BOOLEAN :
               \E o \in Outcomes(mime_type) : extract_text_call(p, mime_type, llm, o)
        \/ respond(p)

SpecExtract == Init /\ [][ExtractNext]_vars

\* the arguments ingest_file is called with
UploadContents == {"", "bytes1", "exactly_max", "too_large"}

UploadFilenames == {NoName, [stem |-> "cv", suffix |-> ".pdf"]}

UploadMimeTypes == {"", "image/png", "application/pdf", "application/zip"}

\* what extraction may do during an upload: the first strategy of a chain
\* yields text or nothing, the one after it yields nothing
UploadOutcomes(mime_type) ==
    {o \in Outcomes(mime_type) :
        /\ o.vision \in {"unused", "text", "raises"}
        /\ o.ocr \in {"unused", "unavailable"}
        /\ o.pymupdf \in {"unused", "text", "empty"}
        /\ o.pdfminer \in {"unused", "raises"}
        /\ o.pdf_ocr \in {"unused", "text"}}

\* ingest_file called with any arguments, one request at a time
UploadNext ==
    \E p \in SeqProcs :
        \/ /\ AllIdle
           /\ \E file_data \in UploadContents, filename \in UploadFilenames,
                  mime_type \in UploadMimeTypes, llm \in BOOLEAN :
                  \E o \in UploadOutcomes(mime_type) :
                      ingest_file(p, file_data, filename, mime_type, llm, o, FALSE)
        \/ IngestContinue(p, ConcurrentTagOutputs, {FALSE})
        \/ respond(p)

SpecUpload == Init /\ [][UploadNext]_vars

AnswerQueries == {<<"resume">>, <<"cv">>}

\* a model whose every call raises
AlwaysRaises == ModelCalls("raises", "raises", "raises", "raises")

AnswerModels == {AlwaysRaises,
                 ModelCalls("answer", "relevant", "false", "processed"),
                 ModelCalls("answer", "relevant", "true", "processed"),
                 ModelCalls("answer", "relevant", "true", "raises")}

\* one outcome per Document there can be: one for each of the contents
AnswerEnvs ==
    [1..Cardinality(Contents) -> {"missing", "read_error", "text", "empty", "raises"}]

\* uploads, then searches that go on to the answer pipeline and calls of
\* process_documents, one request at a time
AnswerNext ==
    \E p \in SeqProcs :
        \/ /\ AllIdle
           /\ \E file_data \in Contents,
                  mime_type \in {"image/png", "application/pdf", "text/plain"},
                  llm \in BOOLEAN :
                  \/ ingest_file_duplicate(p, file_data, [stem |-> "cv", suffix |-> ".pdf"], llm)
                  \/ ingest_file_new(p, file_data, [stem |-> "cv", suffix |-> ".pdf"],
                                     mime_type, llm, "text", FALSE)
        \/ IngestContinue(p, {<<>>, <<"resume">>}, {FALSE})
        \/ /\ AllIdle
           /\ \E query \in AnswerQueries, llm \in BOOLEAN :
                  \E response \in {[raises |-> TRUE, text |-> <<>>],
                                   [raises |-> FALSE, text |-> <<LB, Str("resume"), RB>>]} :
                      search_documents_begin(p, query, 10, llm, response)
        \/ search_documents_fetch(p)
        \/ \E query \in AnswerQueries, m \in AnswerModels, env \in AnswerEnvs :
               search_documents_process(p, query, m, env)
        \/ /\ AllIdle
           /\ \E query \in AnswerQueries \cup {<<>>}, document_ids \in {<<>>, <<1>>, <<2, 1>>},
                  llm \in BOOLEAN, m \in AnswerModels, env \in AnswerEnvs :
                  process_documents(p, query, document_ids, llm, m, env)
        \/ respond(p)

SpecAnswer == Init /\ [][AnswerNext]_vars

\* answers of the tag-generation call
TagResponses ==
    {[raises |-> TRUE, text |-> <<>>]} \cup
    {[raises |-> FALSE, text |-> t] : t \in
        {<<LB, RB>>,
         <<LB, Str("Resume"), COMMA, Str("career"), RB>>,
         <<Bare("sure"), LB, Str("career"), RB>>,
         <<Bare("resume"), SEMI, Bare("career")>>,
         <<Bare("resume"), NL, Bare("career")>>,
         <<Str("resume"), COMMA, Str("career")>>}}

\* text/plain uploads whose tags come from OpenAIProvider.generate_tags
TagsNext ==
    \E p \in SeqProcs :
        \/ /\ AllIdle
           /\ \E file_data \in Contents, llm \in BOOLEAN,
                  extracted_text \in {"hello world", "Quarterly Report",
                                      "invoice for the manual"} :
                  \/ ingest_file_duplicate(p, file_data, [stem |-> "notes", suffix |-> ".txt"], llm)
                  \/ ingest_file_new(p, file_data, [stem |-> "notes", suffix |-> ".txt"],
                                     "text/plain", llm, extracted_text, FALSE)
        \/ ingest_write_blob(p)
        \/ /\ pc[p] = "create_row"
           /\ \E response \in TagResponses :
                  ingest_create_row(p, generate_tags(local[p].extracted_text, local[p].llm,
                                                     response), FALSE)
        \/ ingest_get_or_create_tag(p)
        \/ ingest_assign_tags(p)
        \/ respond(p)

SpecTags == Init /\ [][TagsNext]_vars

\* one request at a time, where a blob write, an unlink or a commit may raise
FaultNext ==
    \E p \in SeqProcs :
        \/ AllIdle /\ IngestBegin(p, {TRUE}, {"text"}, {FALSE})
        \/ IngestContinue(p, ConcurrentTagOutputs, {FALSE})
        \/ AllIdle /\ DeleteBegin(p)
        \/ DeleteContinue(p)
        \/ ingest_write_blob_fails(p)
        \/ ingest_create_row_fails(p)
        \/ delete_unlink_fails(p)
        \/ delete_row_fails(p)
        \/ respond(p)

SpecFault == Init /\ [][FaultNext]_vars

\* what the decision call can come back with: the call raises, or its text is
\* no JSON, a JSON list, or a JSON object with some of the two fields, whose
\* needs_processing value is written as JSON spells it
DecisionResponses ==
    {[raises |-> TRUE, json |-> "none", fields |-> {}, needs_processing |-> "null"],
     [raises |-> FALSE, json |-> "junk", fields |-> {}, needs_processing |-> "null"],
     [raises |-> FALSE, json |-> "list", fields |-> {}, needs_processing |-> "null"]}
    \cup {[raises |-> FALSE, json |-> "object", fields |-> f, needs_processing |-> v] :
              f \in {{"needs_processing", "instructions"}, {"needs_processing"},
                     {"instructions"}},
              v \in {"true", "false", "\"yes\"", "\"false\"", "\"\"", "1", "0", "null"}}

\* lines 327-366: what _decide_additional_processing makes of the response
ParseDecision(response) ==
    IF response.raises THEN "raises"
    ELSE IF response.json # "object" THEN "junk"
    ELSE IF "needs_processing" \notin response.fields THEN "junk"
    ELSE IF "instructions" \notin response.fields THEN "junk"
    ELSE IF response.needs_processing \in {"true", "false"} THEN response.needs_processing
    ELSE IF response.needs_processing \notin {"false", "\"\"", "0", "null"} THEN "truthy"
    ELSE "false"

\* the models of a call: the decision and the follow-up vary
StageModels == {ModelCalls("answer", "relevant", ParseDecision(response), processing) :
                    response \in DecisionResponses, processing \in {"processed", "raises"}}
               \cup {AlwaysRaises}

\* the steps of a call of process_documents that has fetched its rows
ProcessContinue(p) ==
    \/ \E m \in StageModels : process_documents_answer(p, m)
    \/ \E m \in StageModels : process_documents_additional(p, m)
    \/ process_documents_format(p)

\* uploads and calls of process_documents, one request at a time
StagesNext ==
    \E p \in SeqProcs :
        \/ AllIdle /\ IngestBegin(p, {TRUE}, {"text"}, {FALSE})
        \/ IngestContinue(p, {<<"resume">>}, {FALSE})
        \/ /\ AllIdle
           /\ \E query \in AnswerQueries, document_ids \in {<<1>>, <<2, 1>>}, llm \in BOOLEAN,
                  env \in [DocIds -> {"text", "read_error"}] :
                  process_documents_gather(p, query, document_ids, llm, env)
        \/ ProcessContinue(p)
        \/ respond(p)

\* a call of process_documents runs to its return: no step of it waits
SpecStages == /\ Init /\ [][StagesNext]_vars
              /\ \A p \in SeqProcs : WF_vars(ProcessContinue(p))

\* ---------------------------------------------------------------- reprocess
\* agent.reprocess_document(document_id, db): class IngestAgent (ingest_agent.py
\* 52-506) defines the methods listed and no other, so the attribute lookup
\* raises AttributeError before anything runs, no (success, errors) pair is
\* returned and no row, tag row or blob is touched
reprocess_document(p, document_id) ==
    /\ pc[p] = "idle"
    /\ "reprocess_document" \notin
           {"__init__", "_check_dependencies", "is_supported", "ingest_file", "_extract_text",
            "_extract_with_vision_api", "_extract_with_ocr", "_extract_from_pdf",
            "_extract_from_docx", "_extract_from_text"}
    /\ Return(p, [NoResult EXCEPT !.op = "reprocess", !.document = document_id,
                                  !.ok = FALSE, !.errors = {"AttributeError"}])
    /\ UNCHANGED raced
    /\ UNCHANGED <<documents, tagTable, blobs, nextId, access>>

\* one request at a time with tag rows filled between requests, where an unlink
\* or a commit of a delete may raise, and reprocess calls
CleanupNext ==
    \/ \E p \in SeqProcs :
          \/ AllIdle /\ IngestBegin(p, {TRUE}, {"text"}, {FALSE})
          \/ IngestContinue(p, ConcurrentTagOutputs, {FALSE})
          \/ AllIdle /\ DeleteBegin(p)
          \/ DeleteContinue(p)
          \/ delete_unlink_fails(p)
          \/ delete_row_fails(p)
          \/ AllIdle /\ \E document_id \in DocIds : reprocess_document(p, document_id)
          \/ respond(p)
    \/ AllIdle /\ TagOperation

SpecCleanup == Init /\ [][CleanupNext]_vars

\* ---------------------------------------------------------------- claims
\* the tag vocabulary a search would load now
Vocabulary == Range(get_available_tags(tagTable))

\* C1: the catalog never holds two Documents with the same contentHash
C1_OneDocumentPerHash ==
    \A d1 \in documents, d2 \in documents : d1.content_hash = d2.content_hash => d1 = d2

\* two ingests of the same bytes overlapped, one row exists and the loser was refused
C1_Witness ==
    \E p \in Procs :
        /\ pc[p] = "returned" /\ result[p].op = "ingest" /\ raced[p]
        /\ result[p].document = NoDoc
        /\ \E d \in documents : d.content_hash = result[p].content_hash

\* C2: an ingest of bytes that are already in the catalog returns the existing
\* Document's id with a warning and no failure, and leaves the rows, the tag
\* table and the blobs as they were, with exactly one blob for that hash
C2_SecondIngestIdempotent ==
    [][\A p \in Procs :
        (pc[p] = "idle" /\ pc'[p] \in {"returned", "write_blob"}) =>
        \A file_data \in Contents :
          LET h == compute_bytes_hash(file_data)
              called == \E filename \in Filenames, llm \in BOOLEAN :
                            \/ ingest_file_duplicate(p, file_data, filename, llm)
                            \/ \E t \in {"", "text"}, r \in BOOLEAN :
                                   ingest_file_new(p, file_data, filename, "application/pdf", llm, t, r)
          IN (/\ \E d \in documents : d.content_hash = h
              /\ called) =>
                 LET d == CHOOSE e \in documents : e.content_hash = h IN
                 /\ pc'[p] = "returned"
                 /\ result'[p].op = "ingest"
                 /\ result'[p].ok
                 /\ result'[p].document = d.id
                 /\ result'[p].errors = {"already_exists"}
                 /\ documents' = documents
                 /\ tagTable' = tagTable
                 /\ blobs' = blobs
                 /\ {b \in blobs' : b[1] = h} = {d.storage_path}
      ]_vars

\* a duplicate upload returned a Document that has a summary and tags
C2_Witness ==
    \E p \in Procs :
        /\ pc[p] = "returned" /\ result[p].op = "ingest"
        /\ "already_exists" \in result[p].errors
        /\ \E d \in documents :
              d.id = result[p].document /\ d.tags # <<>> /\ d.summary # None

\* C3: with the model available, every tag a search fetched documents by was
\* in the vocabulary that search loaded
C3_OnlyVocabularyTags ==
    \A p \in Procs :
        (pc[p] = "returned" /\ result[p].op = "search" /\ result[p].llm) =>
            \A s \in access[p] :
                s.stmt = "documents_tags_contains" =>
                    s.bound[1] \in Range(result[p].available_tags)

\* the model named a string outside the vocabulary next to a real tag, and the
\* search fetched by the real tag
C3_Witness ==
    \E p \in Procs :
        /\ pc[p] = "returned" /\ result[p].op = "search" /\ result[p].llm
        /\ ~result[p].response.raises
        /\ \E j \in 1..Len(result[p].response.text) :
              result[p].response.text[j].w = Malicious
        /\ result[p].relevant_tags # <<>>
        /\ Stmt("documents_tags_contains", <<result[p].relevant_tags[1]>>) \in access[p]

C5_TagsIndexedAfterIngest ==
    \A p \in Procs :
        (/\ pc[p] = "returned" /\ result[p].op = "ingest" /\ result[p].ok
         /\ result[p].tag_names # <<>>) =>
            LET d == get_by_id(documents, result[p].document) IN
            /\ d # NoRow
            /\ d.tags = result[p].tag_names
            /\ \A t \in Range(result[p].tag_names) :
                  \E r \in tagTable : r.tag = t /\ d.id \in r.document_ids

\* C6: no tag in the vocabulary has an empty document-id set
C6_NoEmptyTag == \A r \in tagTable : r.document_ids # {}

\* C7: when delete(d) succeeds and no other Document carries d's tag T, T has
\* left the vocabulary
C7_LastDocumentPrunesTag ==
    [][\A p \in Procs :
          delete_row(p) =>
              LET d == get_by_id(documents, local[p].document) IN
              d # NoRow =>
                  \A t \in Range(d.tags) :
                      (\A e \in documents \ {d} : t \notin Range(e.tags)) =>
                          t \notin Range(get_available_tags(tagTable'))
      ]_vars

C9_IngestAtomic ==
    /\ \A p \in Procs :
          pc[p] \in {"tag_rows", "assign_tags"} =>
              LET d == get_by_id(documents, local[p].document) IN
              d # NoRow =>
                  ~(d.tags = <<>> /\ \E t \in Range(local[p].tag_names) : t \in Vocabulary)
    /\ \A d \in documents : Range(d.tags) \subseteq Vocabulary

\* C10: two ingests of the same bytes that both passed the lookup before
\* either wrote return the same Document, and one row and one blob exist
C10_ConcurrentDuplicateSafe ==
    \A p \in Procs, q \in Procs :
        (/\ p # q
         /\ pc[p] = "returned" /\ pc[q] = "returned"
         /\ result[p].op = "ingest" /\ result[q].op = "ingest"
         /\ raced[p] /\ raced[q]
         /\ result[p].content_hash = result[q].content_hash) =>
            /\ result[p].document # NoDoc
            /\ result[p].document = result[q].document
            /\ Cardinality({d \in documents : d.content_hash = result[p].content_hash}) = 1
            /\ Cardinality({b \in blobs : b[1] = result[p].content_hash}) = 1

\* the Documents that carry at least one of the tags
Carrying(tags) == {d \in documents : Range(d.tags) \cap Range(tags) # {}}

\* C11: when the model returned vocabulary tags R and some Document carries
\* one of them, search returns Documents that carry a tag of R, each once, as
\* many as the limit allows
C11_UnionOfTaggedDocuments ==
    [][\A p \in Procs :
          (/\ search_documents_fetch(p)
           /\ local[p].llm /\ ~local[p].response.raises
           /\ local[p].relevant_tags # <<>>
           /\ Carrying(local[p].relevant_tags) # {}) =>
              LET ids == result'[p].document_ids
                  carrying == Carrying(local[p].relevant_tags)
                  NoDuplicates(seq) == \A j, k \in 1..Len(seq) : seq[j] = seq[k] => j = k
                  Min(a, b) == IF a < b THEN a ELSE b
              IN /\ result'[p].ok
                 /\ NoDuplicates(ids)
                 /\ Range(ids) \subseteq {d.id : d \in carrying}
                 /\ Len(ids) = Min(local[p].limit, Cardinality(carrying))
      ]_vars

\* C12: when the model is unavailable or yields no relevant tags, search
\* returns what the whole-query substring match finds and, when that finds
\* nothing, the union of the matches of each query word longer than 2 characters
C12_FallbackWordByWord ==
    [][\A p \in Procs :
          (/\ search_documents_fetch(p)
           /\ ~local[p].llm \/ local[p].relevant_tags = <<>>) =>
              Range(result'[p].document_ids) =
                  Range(Ids(search_documents_with_tags(documents, local[p].query, local[p].limit)))
      ]_vars

\* the arguments the validation step of ingest has to refuse
Invalid(file_data, filename, mime_type) ==
    \/ file_data = ""
    \/ filename = NoName
    \/ mime_type = ""
    \/ FileSize(file_data) > MAX_FILE_SIZE

\* C13: ingest with empty bytes, an empty filename, an empty media type or
\* bytes above the maximum returns no Document and an error and changes
\* nothing, without reaching extraction or the model; bytes of exactly the
\* maximum size pass validation
C13_InvalidInputRejected ==
    [][\A p \in Procs :
        (pc[p] = "idle" /\ pc'[p] # "idle") =>
        \A file_data \in UploadContents, filename \in UploadFilenames,
           mime_type \in UploadMimeTypes :
          (/\ Invalid(file_data, filename, mime_type) \/ pc'[p] = "returned"
           /\ \E llm \in BOOLEAN : \E o \in UploadOutcomes(mime_type) :
                  ingest_file(p, file_data, filename, mime_type, llm, o, FALSE)) =>
              IF Invalid(file_data, filename, mime_type)
              THEN /\ pc'[p] = "returned"
                   /\ result'[p].op = "ingest"
                   /\ result'[p].document = NoDoc
                   /\ result'[p].errors # {}
                   /\ result'[p].errors \cap {"already_exists", "no_text", "summary_skipped",
                                              "summary_failed", "tags_skipped", "tags_failed",
                                              "unexpected"} = {}
                   /\ documents' = documents /\ tagTable' = tagTable /\ blobs' = blobs
              ELSE ~(pc'[p] = "returned" /\ result'[p].document = NoDoc)
      ]_vars

\* bytes above the maximum were refused
C13_Witness ==
    \E p \in Procs :
        /\ pc[p] = "returned" /\ result[p].op = "ingest"
        /\ result[p].errors = {"too_large"} /\ result[p].document = NoDoc

\* C14: ingest with valid arguments and a media type outside the supported
\* set returns no Document and creates neither a row nor a blob
C14_UnsupportedTypeRejected ==
    [][\A p \in Procs :
        (pc[p] = "idle" /\ pc'[p] # "idle") =>
        \A file_data \in UploadContents, filename \in UploadFilenames,
           mime_type \in UploadMimeTypes :
          (/\ ~Invalid(file_data, filename, mime_type)
           /\ ~is_supported(mime_type)
           /\ \E llm \in BOOLEAN : \E o \in UploadOutcomes(mime_type) :
                  ingest_file(p, file_data, filename, mime_type, llm, o, FALSE)) =>
              /\ pc'[p] = "returned"
              /\ result'[p].document = NoDoc
              /\ documents' = documents /\ blobs' = blobs
      ]_vars

\* C15: a valid new upload of a supported media type whose extraction yields
\* nothing goes on with the extraction warning, and an ingest that carries
\* that warning returns its Document
C15_ExtractionFailureDegrades ==
    /\ [][\A p \in Procs :
            (pc[p] = "idle" /\ pc'[p] # "idle") =>
            \A file_data \in UploadContents, filename \in UploadFilenames,
               mime_type \in UploadMimeTypes, llm \in BOOLEAN :
             \A o \in UploadOutcomes(mime_type) :
                 (/\ ~Invalid(file_data, filename, mime_type)
                  /\ is_supported(mime_type)
                  /\ get_by_hash(documents, compute_bytes_hash(file_data)) = NoRow
                  /\ extract_text(mime_type, llm, o).text = None
                  /\ ingest_file(p, file_data, filename, mime_type, llm, o, FALSE)) =>
                     /\ pc'[p] = "write_blob"
                     /\ "no_text" \in local'[p].errors
        ]_vars
    /\ [](\A p \in Procs :
             (pc[p] = "returned" /\ result[p].op = "ingest" /\ "no_text" \in result[p].errors) =>
                 /\ result[p].document # NoDoc
                 /\ get_by_id(documents, result[p].document) # NoRow)

\* an ingest returned its Document together with the extraction warning
C15_Witness ==
    \E p \in Procs :
        /\ pc[p] = "returned" /\ result[p].op = "ingest"
        /\ "no_text" \in result[p].errors
        /\ get_by_id(documents, result[p].document) # NoRow

\* C16: when the blob write fails, ingest returns no Document and the error
\* of the failure, and no Document row exists for that content hash
C16_BlobWriteFailureSurfaced ==
    [][\A p \in Procs :
          ingest_write_blob_fails(p) =>
              /\ pc'[p] = "returned"
              /\ result'[p].document = NoDoc
              /\ "unexpected" \in result'[p].errors
              /\ \A d \in documents' : d.content_hash # local[p].content_hash
      ]_vars

\* an ingest failed at the blob write: nothing is stored for its hash
C16_Witness ==
    \E p \in Procs :
        /\ pc[p] = "returned" /\ result[p].op = "ingest"
        /\ "fault" \in result[p].errors /\ result[p].document = NoDoc
        /\ \A b \in blobs : b[1] # result[p].content_hash
        /\ \A d \in documents : d.content_hash # result[p].content_hash

\* the extractions the content endpoint has answered
Extractions == {result[p].extraction : p \in {q \in Procs : pc[q] = "returned" /\ result[q].op = "extract"}}

\* C17: a PDF whose text layer yields nothing gives text whenever per-page
\* OCR of it succeeds; the outcome is a failure only if both yield nothing
C17_PdfFallsBackToOcr ==
    \A e \in Extractions :
        (/\ e.mime_type = "application/pdf"
         /\ e.strategies.pymupdf # "text"
         /\ e.strategies.pdfminer # "text") =>
            (e.text = None <=> e.strategies.pdf_ocr # "text")

C19_RaisingModelDegrades ==
    [][\A p \in Procs :
          /\ (pc[p] = "idle" /\ pc'[p] = "search_fetch"
              /\ local'[p].llm /\ local'[p].response.raises) =>
                 \A t \in Range(local'[p].relevant_tags) :
                     /\ t \in Range(get_available_tags(tagTable))
                     /\ t \in Range(local'[p].query)
          /\ (search_documents_fetch(p) /\ local[p].llm /\ local[p].response.raises) =>
                 (pc'[p] = "returned" /\ result'[p].ok /\ result'[p].errors = {})
          /\ (/\ pc[p] = "returned" /\ result[p].op = "search" /\ result[p].llm
              /\ result'[p].op = "answer"
              /\ \E query \in AnswerQueries, env \in AnswerEnvs :
                     search_documents_process(p, query, AlwaysRaises, env)) =>
                 LET found == {d.id : d \in documents} \cap Range(result[p].document_ids)
                     entries == result'[p].processed_documents IN
                 /\ result'[p].errors = {}
                 /\ Len(entries) = Cardinality(found)
                 /\ {entries[j].document_id : j \in 1..Len(entries)} = found
                 /\ \A j \in 1..Len(entries) :
                        /\ entries[j].relevant_content.kind = "Error processing content with LLM"
                        /\ ~entries[j].processing_applied
                 /\ result'[p].direct_answer = "Error generating answer"
      ]_vars

\* a search whose model call raised went on to the answer pipeline, whose
\* model calls raised too
C19_Witness ==
    \E p \in Procs :
        /\ pc[p] = "returned" /\ result[p].op = "answer"
        /\ result[p].llm /\ result[p].response.raises
        /\ result[p].direct_answer = "Error generating answer"
        /\ Len(result[p].processed_documents) = 2

\* C20: every candidate found gets exactly one content entry; an image gets
\* its stored summary and its blob is not read; a document of another type
\* whose blob is missing, cannot be read or makes the library raise gets its
\* stored summary, or a placeholder with its title when it has no summary
C20_ContentFallsBackToSummary ==
    \A p \in Procs :
        (pc[p] = "returned" /\ result[p].op \in {"process", "answer"}
         /\ result[p].contents # <<>>) =>
            LET rows == SeqOfDocs({d \in documents : d.id \in Range(result[p].document_ids)})
                contents == result[p].contents IN
            /\ Len(contents) = Len(rows)
            /\ \A env \in AnswerEnvs :
                   contents = extract_document_contents(rows, blobs, env) =>
                       \A j \in 1..Len(rows) :
                           LET doc == rows[j]
                               c == contents[j]
                               failed == \/ doc.storage_path \notin blobs
                                         \/ env[doc.id] \in {"missing", "read_error", "raises"}
                           IN /\ c.document_id = doc.id
                              /\ IsImage(doc.mime_type) => ~c.opened
                              /\ (IsImage(doc.mime_type) \/ failed) =>
                                     IF doc.summary # None
                                     THEN c.kind = "summary" /\ c.text = doc.summary
                                     ELSE c.kind = "placeholder" /\ c.text = doc.title

\* C21: with the model unavailable, a new text/plain upload gets a Document
\* with no summary whose tags are what the keyword table yields for its text
C21_KeywordTagsWhenUnavailable ==
    [][\A p \in Procs :
          (/\ pc[p] = "create_row" /\ pc'[p] # "create_row"
           /\ ~local[p].llm /\ local[p].mime_type = "text/plain") =>
              /\ pc'[p] = "returned"
              /\ get_by_id(documents', result'[p].document) # NoRow
              /\ get_by_id(documents', result'[p].document).summary = None
              /\ get_by_id(documents', result'[p].document).tags
                     = keyword_tags(local[p].extracted_text)
      ]_vars

\* C22: for the same query, candidate ids and catalog, process_documents
\* with a model whose every call raises returns the direct answer, the
\* relevant content and the processing_applied values it returns with the
\* model unavailable
C22_RaisingEqualsUnavailable ==
    [][\A p \in Procs :
          (pc[p] = "idle" /\ pc'[p] = "returned" /\ result'[p].op = "process"
           /\ result'[p].llm) =>
              \A query \in AnswerQueries, document_ids \in {<<1>>, <<2, 1>>}, env \in AnswerEnvs :
                  process_documents(p, query, document_ids, TRUE, AlwaysRaises, env) =>
                      LET unavailable == ProcessResult(documents, blobs, query, document_ids,
                                                       FALSE, AlwaysRaises, env)
                      IN /\ result'[p].direct_answer = unavailable.direct_answer
                         /\ result'[p].processed_documents = unavailable.processed_documents
      ]_vars

\* C23: reprocess of a catalogued Document succeeds and leaves the number of
\* Documents, their ids and their contentHashes as they were; reprocess of an id
\* that is not in the catalog returns failure with 'Document not found' and
\* changes nothing
C23_ReprocessInPlace ==
    [][\A p \in Procs :
          (pc[p] = "idle" /\ pc'[p] = "returned" /\ result'[p].op = "reprocess") =>
              /\ {[id |-> d.id, content_hash |-> d.content_hash] : d \in documents'}
                     = {[id |-> d.id, content_hash |-> d.content_hash] : d \in documents}
              /\ IF get_by_id(documents, result'[p].document) = NoRow
                 THEN /\ ~result'[p].ok
                      /\ result'[p].errors = {"Document not found"}
                      /\ UNCHANGED <<documents, tagTable, blobs>>
                 ELSE result'[p].ok
      ]_vars

\* the ids some tag row lists
IndexedIds == UNION {r.document_ids : r \in tagTable}

C25_StagesInOrder ==
    /\ [][\A p \in Procs :
             (/\ pc'[p] # pc[p]
              /\ {pc[p], pc'[p]} \cap {"content_gathered", "answered", "maybe_reprocessed"} # {}) =>
                 <<pc[p], pc'[p]>> \in
                     {<<"idle", "content_gathered">>, <<"content_gathered", "answered">>,
                      <<"answered", "maybe_reprocessed">>, <<"answered", "returned">>,
                      <<"maybe_reprocessed", "returned">>}
       ]_vars
    /\ [][\A p \in Procs :
             (pc[p] \in {"answered", "maybe_reprocessed"} /\ pc'[p] = "returned") =>
                 /\ result'[p].op = "process"
                 /\ \A j \in 1..Len(result'[p].processed_documents) :
                        result'[p].processed_documents[j].processing_applied
                            = (pc[p] = "maybe_reprocessed")
       ]_vars
    /\ \A p \in SeqProcs :
           (pc[p] = "content_gathered") ~> (pc[p] = "returned" /\ result[p].op = "process")

\* a call got to Done through MaybeReprocessed although the follow-up call raised
C25_Witness ==
    \E p \in Procs :
        /\ pc[p] = "returned" /\ result[p].op = "process" /\ result[p].llm
        /\ result[p].processed_documents # <<>>
        /\ result[p].processed_documents[1].processing_applied
        /\ result[p].processed_documents[1].relevant_content.kind = "model"

\* C26: the follow-up call is made exactly when the decision is a well-formed
\* object whose needs_processing is the boolean true; made and successful, its
\* output is the content of the entries, and failed, the relevant content stays
C26_FollowUpOnlyOnTrue ==
    [][LET FlaggedTrue(response) ==
               /\ ~response.raises
               /\ response.json = "object"
               /\ response.fields = {"needs_processing", "instructions"}
               /\ response.needs_processing = "true"
       IN
       \A p \in Procs :
          /\ (pc[p] = "content_gathered" /\ pc'[p] = "answered" /\ local[p].llm) =>
                 \A response \in DecisionResponses, processing \in {"processed", "raises"} :
                     process_documents_answer(p, ModelCalls("answer", "relevant",
                                                            ParseDecision(response), processing))
                         => (local'[p].needs_processing <=> FlaggedTrue(response))
          /\ (pc[p] = "answered" /\ pc'[p] = "maybe_reprocessed") =>
                 /\ local[p].needs_processing
                 /\ \A m \in StageModels :
                        process_documents_additional(p, m) =>
                            local'[p].final_result =
                                IF local[p].llm /\ m.processing # "raises"
                                THEN [kind |-> "processed", ids |-> <<>>]
                                ELSE local[p].relevant_content
          /\ (pc[p] = "answered" /\ pc'[p] = "returned") => ~local[p].needs_processing
      ]_vars

\* C27: when summarize or generate_tags raises, ingest still creates and
\* returns the Document, without summary or without tags, with a warning, and
\* no step of an ingest is taken a second time (the summary is asked for in
\* the first step and the tags in the step that leaves create_row)
C27_ModelFailureNotFatal ==
    [][\A p \in Procs :
          /\ (pc[p] = "idle" /\ pc'[p] = "write_blob") =>
                 \A file_data \in Contents, filename \in Filenames, extracted_text \in {"", "text"} :
                     ingest_file_new(p, file_data, filename, "application/pdf", TRUE,
                                     extracted_text, TRUE) =>
                         /\ "summary_failed" \in local'[p].errors
                         /\ local'[p].summary = None
          /\ (pc[p] = "create_row" /\ pc'[p] # "create_row") =>
                 LET row == get_by_id(documents', nextId') IN
                 /\ nextId' = nextId + 1
                 /\ row # NoRow
                 /\ row.content_hash = local[p].content_hash
                 /\ "summary_failed" \in local[p].errors => row.summary = None
                 /\ \A tag_names \in TagOutputs :
                        ingest_create_row(p, tag_names, TRUE) =>
                            /\ pc'[p] = "returned"
                            /\ result'[p].document = row.id
                            /\ local[p].errors \cup {"tags_failed"} \subseteq result'[p].errors
                            /\ row.tags = <<>>
          /\ (pc'[p] # pc[p] /\ "ingest" \in {local[p].op, local'[p].op}) =>
                 <<pc[p], pc'[p]>> \in
                     {<<"idle", "write_blob">>, <<"write_blob", "create_row">>,
                      <<"create_row", "tag_rows">>, <<"create_row", "returned">>,
                      <<"tag_rows", "assign_tags">>, <<"assign_tags", "returned">>}
      ]_vars

\* an ingest returned its Document although both calls raised
C27_Witness ==
    \E p \in Procs :
        /\ pc[p] = "returned" /\ result[p].op = "ingest"
        /\ {"summary_failed", "tags_failed"} \subseteq result[p].errors
        /\ get_by_id(documents, result[p].document) # NoRow
        /\ get_by_id(documents, result[p].document).summary = None
        /\ get_by_id(documents, result[p].document).tags = <<>>

\* C28: for every response text, the relevant tags a search derives are the
\* ones the tag-generation ladder (strict list, bracketed list inside prose,
\* split on comma, semicolon and newline) would give, filtered to the vocabulary
C28_SameLadderAsGeneration ==
    [][\A p \in Procs :
          (/\ pc[p] = "idle" /\ pc'[p] = "search_fetch"
           /\ local'[p].llm /\ ~local'[p].response.raises) =>
              local'[p].relevant_tags
                  = ValidTags(GeneratedNames(local'[p].response.text), local'[p].available_tags)
      ]_vars

\* C29: once the ingest and delete calls have returned, failed ones included,
\* every blob in the store is the storage location of a Document of the catalog
C29_NoOrphanBlob ==
    (\A p \in Procs : pc[p] \in {"idle", "returned"}) =>
        blobs \subseteq {d.storage_path : d \in documents}

\* C30: a delete that returns False for an unknown id changes nothing, and one
\* that returns False after a failure leaves its Document in the catalog with
\* its blob and in the tag rows that listed it when the delete was called
C30_FailedDeleteChangesNothing ==
    [][\A p \in Procs :
          (/\ pc[p] # "returned" /\ pc'[p] = "returned"
           /\ result'[p].op = "delete" /\ ~result'[p].ok) =>
              IF pc[p] = "idle"
              THEN UNCHANGED <<documents, tagTable, blobs>>
              ELSE /\ get_by_id(documents', local[p].document) # NoRow
                   /\ local[p].storage_path \in blobs'
                   /\ {r.tag : r \in {x \in tagTable' : local[p].document \in x.document_ids}}
                          = local[p].listed_in
      ]_vars

====
